---------------------------- MODULE Spec2Model ----------------------------
(***************************************************************************)
(* A model of the BLE sniffer of src/src/ble_sniffer.rs and src/src/main.rs *)
(*                                                                         *)
(*   - the SLIP-style frame codec (add_bytes_to_slip, make_send_bytes,      *)
(*     get_packet_bytes and the copy of the decoder in                      *)
(*     analyze_serial_packets),                                             *)
(*   - the frame decoder BlePacket::from,                                   *)
(*   - the worker thread analyze_serial_packets and the consumer loop of    *)
(*     main, with the two mpsc channels between them.                       *)
(*                                                                         *)
(* Three specifications share the module:                                   *)
(*   SpecCodec  get_packet_bytes run on an encoded payload,                 *)
(*   SpecFrom   BlePacket::from run byte by byte on a frame,                *)
(*   Spec       the worker and the consumer, interleaved (FairSpec adds     *)
(*              the fairness of the two threads).                           *)
(***************************************************************************)
EXTENDS Integers, Sequences, FiniteSets, TLC

(***************************************************************************)
(* Program constants.                                                      *)
(***************************************************************************)
SLIP_START == 171
SLIP_END == 188
SLIP_ESC == 205
SLIP_ESC_START == SLIP_START + 1
SLIP_ESC_END == SLIP_END + 1
SLIP_ESC_ESC == SLIP_ESC + 1
PROTOVER_V1 == 1
HEADER_LENGTH == 6
EVENT_PACKET_ADV_PDU == 2
EVENT_PACKET_DATA_PDU == 6
REQ_SCAN_CONT == 7
SET_TEMPORARY_KEY == 12
ADV_TYPE_ADV_NONCONN_IND == 2
ADV_TYPE_SCAN_REQ == 3

(***************************************************************************)
(* Bit arithmetic on naturals, as the code's &, | , << and >> compute it.  *)
(***************************************************************************)
RECURSIVE BitAnd(_, _)
BitAnd(a, b) ==
    IF a = 0 \/ b = 0 THEN 0
    ELSE ((a % 2) * (b % 2)) + 2 * BitAnd(a \div 2, b \div 2)

RECURSIVE BitOr(_, _)
BitOr(a, b) ==
    IF a = 0 THEN b
    ELSE IF b = 0 THEN a
    ELSE (IF (a % 2) + (b % 2) > 0 THEN 1 ELSE 0) + 2 * BitOr(a \div 2, b \div 2)

RECURSIVE Pow2(_)
Pow2(k) == IF k = 0 THEN 1 ELSE 2 * Pow2(k - 1)

ShiftR(a, k) == a \div Pow2(k)

\* A left shift of a value widened to `width` bits (b as u16, b as u32).
ShiftL(a, k, width) == (a * Pow2(k)) % Pow2(width)

\* A u32 is held as its four bytes, least significant first (its value is
\* above the integers the model checker computes with).
U32Zero == << 0, 0, 0, 0 >>

\* x | ((b as u32) << (8 * k)), for a byte b and k in 0..3.
U32OrShl(x, b, k) == [x EXCEPT ![k + 1] = BitOr(@, b)]

\* Option<T>: None is the empty sequence, Some(x) the one-element sequence.
None == << >>
Some(x) == << x >>

(***************************************************************************)
(* Frame codec, encode direction.                                          *)
(***************************************************************************)
\* add_bytes_to_slip with the escape code left equal to the literal.
add_bytes_to_slip_same(packet_bytes_, content_byte) ==
    IF content_byte = SLIP_START \/ content_byte = SLIP_END \/ content_byte = SLIP_ESC
    THEN packet_bytes_ \o << SLIP_ESC, content_byte >>
    ELSE Append(packet_bytes_, content_byte)

\* add_bytes_to_slip: the bytes pushed for one content byte.  The sum
\* content_byte + 1 is a u8 sum; the three escaped values are below 255.
add_bytes_to_slip(packet_bytes_, content_byte) ==
    IF content_byte = SLIP_START \/ content_byte = SLIP_END \/ content_byte = SLIP_ESC
    THEN packet_bytes_ \o << SLIP_ESC, (content_byte + 1) % 256 >>
    ELSE Append(packet_bytes_, content_byte)

\* The loop "for payload_byte in payload { add_bytes_to_slip(..) }": the
\* bytes of content are taken in order, the first half of them and then the
\* second half, which keeps the recursion shallow for a long payload.
RECURSIVE slip_all(_, _)
slip_all(packet_bytes_, content) ==
    IF content = << >> THEN packet_bytes_
    ELSE IF Len(content) = 1 THEN add_bytes_to_slip(packet_bytes_, content[1])
    ELSE LET half == Len(content) \div 2
         IN CHOOSE r \in { slip_all(t, SubSeq(content, half + 1, Len(content))) :
                              t \in { slip_all(packet_bytes_, SubSeq(content, 1, half)) } } : TRUE

\* The framing of make_send_bytes: START, the escaped content, END.
slip_frame(content) == Append(slip_all(<< SLIP_START >>, content), SLIP_END)

\* A variant of make_send_bytes that puts the counter's high byte first:
\* C23 does not hold of it.
make_send_bytes_be(id, payload_, packet_counter) ==
    slip_frame(<< HEADER_LENGTH,
                  Len(payload_) % 256,
                  PROTOVER_V1,
                  ShiftR(packet_counter, 8) % 256,
                  BitAnd(packet_counter, 255),
                  id >> \o payload_)

make_send_bytes(id, payload, packet_counter) ==
    slip_frame(<< HEADER_LENGTH,
                  Len(payload) % 256,
                  PROTOVER_V1,
                  BitAnd(packet_counter, 255),
                  ShiftR(packet_counter, 8) % 256,
                  id >> \o payload)

make_send_scan_bytes(find_scan_rsp, find_aux, scan_coded, packet_counter) ==
    LET f0 == IF find_scan_rsp THEN 1 ELSE 0
        f1 == IF find_aux THEN BitOr(f0, ShiftL(1, 1, 8)) ELSE f0
        flags == IF scan_coded THEN BitOr(f1, ShiftL(1, 2, 8)) ELSE f1
    IN make_send_bytes(REQ_SCAN_CONT, << flags >>, packet_counter)

make_send_tk_bytes(tk, packet_counter) ==
    make_send_bytes(SET_TEMPORARY_KEY, [i \in 1..16 |-> tk], packet_counter)

(***************************************************************************)
(* Frame codec, decode direction: get_packet_bytes.  Its locals are        *)
(* [packet_list, packet_bytes, packet_start, previous_byte_is_esc,         *)
(* read_index].                                                            *)
(***************************************************************************)
get_packet_bytes_init ==
    [packet_list |-> << >>, packet_bytes |-> << >>, packet_start |-> FALSE,
     previous_byte_is_esc |-> FALSE, read_index |-> 0]

\* The byte pushed for the byte b that follows an ESCAPE.
get_packet_bytes_unescape(b) ==
    IF b = SLIP_ESC_START THEN SLIP_START
    ELSE IF b = SLIP_ESC_END THEN SLIP_END
    ELSE IF b = SLIP_ESC_ESC THEN SLIP_ESC
    ELSE b

\* One iteration of "for b in bytes" on the locals g of get_packet_bytes.
get_packet_bytes_iter(g0, b) ==
    LET g == [g0 EXCEPT !.read_index = @ + 1]
    IN IF ~g.packet_start
       THEN [g EXCEPT !.packet_start = (b = SLIP_START)]
       ELSE IF b = SLIP_END
       THEN [g EXCEPT !.packet_start = FALSE,
                      !.packet_list = Append(@, g.packet_bytes),
                      !.packet_bytes = << >>]
       ELSE IF b = SLIP_ESC
       THEN [g EXCEPT !.previous_byte_is_esc = TRUE]
       ELSE IF g.previous_byte_is_esc
       THEN [g EXCEPT !.packet_bytes = Append(@, get_packet_bytes_unescape(b)),
                      !.previous_byte_is_esc = FALSE]
       ELSE [g EXCEPT !.packet_bytes = Append(@, b)]

(***************************************************************************)
(* BlePacket::from.                                                        *)
(***************************************************************************)
BlePacketHeader_new ==
    [protocol_version |-> 0, crc_ok |-> FALSE, adv_header |-> None,
     data_header |-> None, phy |-> 0, channel_index |-> 0, rssi |-> 0,
     event_counter |-> 0, delta_time_us |-> U32Zero]

BleLinkLayer_new ==
    [access_address |-> U32Zero, pdu_type |-> 0, channel_select |-> 0,
     tx_address_public |-> FALSE, rx_address_public |-> FALSE,
     non_conn_ind |-> None, scan_req |-> None]

BlePacket_new ==
    [valid |-> FALSE, protocol_version |-> 0, packet_counter |-> 0,
     packet_id |-> 0, packet_header |-> BlePacketHeader_new,
     ll_layer_data |-> BleLinkLayer_new]

ZeroMac == << 0, 0, 0, 0, 0, 0 >>

BleLLNonConnIndMsg_new ==
    [advertising_mac |-> ZeroMac, advertising_types |-> << >>, flags |-> None,
     complete_local_name |-> None, tx_power_level |-> None,
     manufacturer_data |-> None]

BleLLScanReqMsg_new == [scanning_mac |-> ZeroMac, advertising_mac |-> ZeroMac]

\* String::from_utf8 succeeds: the bytes are well-formed UTF-8 (no overlong
\* form, no surrogate, nothing above U+10FFFF).
IsCont(b) == b >= 128 /\ b <= 191

RECURSIVE IsUtf8(_)
IsUtf8(bs) ==
    IF bs = << >> THEN TRUE
    ELSE LET b0 == bs[1]
             n == Len(bs)
         IN IF b0 < 128 THEN IsUtf8(Tail(bs))
            ELSE IF b0 >= 194 /\ b0 <= 223
            THEN n >= 2 /\ IsCont(bs[2]) /\ IsUtf8(SubSeq(bs, 3, n))
            ELSE IF b0 >= 224 /\ b0 <= 239
            THEN /\ n >= 3
                 /\ IsCont(bs[2])
                 /\ (b0 = 224 => bs[2] >= 160)
                 /\ (b0 = 237 => bs[2] <= 159)
                 /\ IsCont(bs[3])
                 /\ IsUtf8(SubSeq(bs, 4, n))
            ELSE IF b0 >= 240 /\ b0 <= 244
            THEN /\ n >= 4
                 /\ IsCont(bs[2])
                 /\ (b0 = 240 => bs[2] >= 144)
                 /\ (b0 = 244 => bs[2] <= 143)
                 /\ IsCont(bs[3])
                 /\ IsCont(bs[4])
                 /\ IsUtf8(SubSeq(bs, 5, n))
            ELSE FALSE

\* An 8-bit counter incremented by one.
U8Inc(x) == (x + 1) % 256

\* The locals of BlePacket::from before the loop.  `returned` is set by an
\* early return inside the loop.
from_init ==
    [returned |-> FALSE,
     ll_payload_len |-> 0,
     ll_payload_index |-> 0,
     ll_payload_read_status |-> 0,
     ll_payload_info_len |-> 0,
     ll_payload_info_index |-> 0,
     ll_payload_info_type |-> 0,
     result |-> BlePacket_new,
     cache_bytes |-> << >>,
     byte_index |-> 0,
     non_conn_ind_msg |-> BleLLNonConnIndMsg_new,
     scan_req_msg |-> BleLLScanReqMsg_new]

\* A variant of from_meta that fills both sub-records: C13 does not hold of it.
from_meta_both(r, b) ==
    [r EXCEPT !.packet_header.data_header =
                  Some([direction_to_slave |-> (ShiftR(BitAnd(b, 2), 1) = 1),
                        encrypted |-> (ShiftR(BitAnd(b, 4), 2) = 1),
                        mic_ok |-> (ShiftR(BitAnd(b, 8), 3) = 1)]),
              !.packet_header.adv_header =
                  Some([aux_type |-> ShiftR(BitAnd(b, 6), 1),
                        address_resolved |-> (ShiftR(BitAnd(b, 8), 3) = 1)])]

\* A variant of from_meta that takes the PHY from bits 1-3: C18 does not
\* hold of it.
from_meta_low_phy(r, b) ==
    [r EXCEPT !.packet_header.crc_ok = (BitAnd(b, 1) = 1),
              !.packet_header.phy = ShiftR(BitAnd(b, 14), 1)]

\* The byte at index 7: CRC, PHY and the sub-record chosen by packet_id.
from_meta(r, b) ==
    LET h == [r.packet_header EXCEPT
                 !.crc_ok = (BitAnd(b, 1) = 1),
                 !.phy = ShiftR(BitAnd(b, 112), 4)]
    IN IF r.packet_id = EVENT_PACKET_DATA_PDU
       THEN [r EXCEPT !.packet_header =
                [h EXCEPT !.data_header =
                    Some([direction_to_slave |-> (ShiftR(BitAnd(b, 2), 1) = 1),
                          encrypted |-> (ShiftR(BitAnd(b, 4), 2) = 1),
                          mic_ok |-> (ShiftR(BitAnd(b, 8), 3) = 1)])]]
       ELSE IF r.packet_id = EVENT_PACKET_ADV_PDU
       THEN [r EXCEPT !.packet_header =
                [h EXCEPT !.adv_header =
                    Some([aux_type |-> ShiftR(BitAnd(b, 6), 1),
                          address_resolved |-> (ShiftR(BitAnd(b, 8), 3) = 1)])]]
       ELSE [r EXCEPT !.packet_header = h]

\* The manufacturer data built from cache_bytes once the structure is complete.
from_manufacturer(cache) ==
    LET n == Len(cache)
    IN [company_id |-> BitOr(IF n >= 1 THEN cache[1] ELSE 0,
                             IF n >= 2 THEN ShiftL(cache[2], 8, 16) ELSE 0),
        data |-> IF n >= 3 THEN SubSeq(cache, 3, n) ELSE << >>]

\* One byte of a NonConnectableAdvertisement payload: the AD-structure
\* reader (ll_payload_read_status 0: length, 1: type, 2: value).
from_ad_byte(s, b) ==
    IF s.ll_payload_read_status = 0
    THEN [s EXCEPT !.ll_payload_info_len = b,
                   !.ll_payload_info_index = 0,
                   !.ll_payload_info_type = 0,
                   !.ll_payload_read_status = 1,
                   !.cache_bytes = << >>]
    ELSE IF s.ll_payload_read_status = 1
    THEN [s EXCEPT !.ll_payload_info_type = b,
                   !.non_conn_ind_msg.advertising_types = Append(@, b),
                   !.ll_payload_read_status = 2,
                   !.ll_payload_info_index = U8Inc(@)]
    ELSE IF s.ll_payload_read_status = 2
    THEN LET idx == U8Inc(s.ll_payload_info_index)
             complete == (idx = s.ll_payload_info_len)
             typ == s.ll_payload_info_type
             cache == IF typ = 9 \/ typ = 255
                      THEN Append(s.cache_bytes, b) ELSE s.cache_bytes
             msg == s.non_conn_ind_msg
             msg2 ==
                IF typ = 1
                THEN [msg EXCEPT !.flags =
                        Some([simultaneous_host |-> (BitAnd(ShiftR(b, 4), 1) = 1),
                              simultaneous_controller |-> (BitAnd(ShiftR(b, 3), 1) = 1),
                              br_edr_support |-> (BitAnd(ShiftR(b, 2), 1) = 1),
                              le_general_discoverale |-> (BitAnd(ShiftR(b, 1), 1) = 1),
                              le_limited_discoverable |-> (BitAnd(b, 1) = 1)])]
                ELSE IF typ = 9
                THEN IF complete /\ IsUtf8(cache)
                     THEN [msg EXCEPT !.complete_local_name =
                              Some([device_name |-> cache])]
                     ELSE msg
                ELSE IF typ = 10
                THEN [msg EXCEPT !.tx_power_level = Some([tx_power_level |-> b])]
                ELSE IF typ = 255
                THEN IF complete
                     THEN [msg EXCEPT !.manufacturer_data =
                              Some(from_manufacturer(cache))]
                     ELSE msg
                ELSE msg
         IN [s EXCEPT !.ll_payload_info_index = idx,
                      !.cache_bytes = cache,
                      !.non_conn_ind_msg = msg2,
                      !.ll_payload_read_status = IF complete THEN 0 ELSE 2]
    ELSE s

\* A variant of from_payload_byte that goes on reading AD structures after
\* the declared length: C26 does not hold of it.
from_payload_byte_unbounded(s, b) ==
    IF s.result.ll_layer_data.pdu_type = ADV_TYPE_ADV_NONCONN_IND /\ s.byte_index >= 28
    THEN [from_ad_byte(s, b) EXCEPT !.ll_payload_index = U8Inc(@)]
    ELSE s

\* The last arm of the chain: a byte at an index that has no arm of its own
\* (0 when the byte is 6, 1, 6, and 28 onwards).
from_payload_byte(s, b) ==
    IF s.ll_payload_index < s.ll_payload_len
    THEN LET s1 ==
               IF s.result.ll_layer_data.pdu_type = ADV_TYPE_ADV_NONCONN_IND
               THEN from_ad_byte(s, b)
               ELSE IF s.result.ll_layer_data.pdu_type = ADV_TYPE_SCAN_REQ
               THEN [s EXCEPT !.scan_req_msg.advertising_mac[(33 - s.byte_index) + 1] = b]
               ELSE s
         IN [s1 EXCEPT !.ll_payload_index = U8Inc(@)]
    ELSE s

\* A variant of from_mac_slot that stores the MAC in wire order: C12 does not
\* hold of it.
from_mac_slot_forward(i) == (i - 22) + 1

\* The slot of the 6-byte MAC array written at byte_index i (22..27):
\* [27 - byte_index], counted from 1.
from_mac_slot(i) == (27 - i) + 1

\* The header-length check made on the payload-length byte instead.
from_bad_header_at1(i, b) == i = 1 /\ b # HEADER_LENGTH

\* The header-length check on the first byte.
from_bad_header(i, b) == i = 0 /\ b # HEADER_LENGTH

\* A variant of from_bad_scan_req that accepts a length above 12: C25 does
\* not hold of it.
from_bad_scan_req_short(s) ==
    s.result.ll_layer_data.pdu_type = ADV_TYPE_SCAN_REQ /\ s.ll_payload_len < 12

\* A variant of from_bad_scan_req that accepts every length: C17 does not
\* hold of it.
from_bad_scan_req_never(s) == FALSE

\* The ScanRequest length check, made on the byte after the length byte.
from_bad_scan_req(s) ==
    s.result.ll_layer_data.pdu_type = ADV_TYPE_SCAN_REQ /\ s.ll_payload_len # 12

\* The body of "for b in bytes", up to and including byte_index += 1.
from_byte(s, b) ==
    LET i == s.byte_index
        r == s.result
        next(t) == [t EXCEPT !.byte_index = @ + 1]
    IN IF from_bad_header(i, b) THEN [s EXCEPT !.returned = TRUE]
       ELSE IF i = 2 THEN next([s EXCEPT !.result.protocol_version = b])
       ELSE IF i = 3 THEN next([s EXCEPT !.result.packet_counter = BitOr(@, b)])
       ELSE IF i = 4
       THEN next([s EXCEPT !.result.packet_counter = BitOr(@, ShiftL(b, 8, 16))])
       ELSE IF i = 5 THEN next([s EXCEPT !.result.packet_id = b])
       ELSE IF i = 7 THEN next([s EXCEPT !.result = from_meta(r, b)])
       ELSE IF i = 8 THEN next([s EXCEPT !.result.packet_header.channel_index = b])
       ELSE IF i = 9 THEN next([s EXCEPT !.result.packet_header.rssi = 0 - b])
       ELSE IF i = 10
       THEN next([s EXCEPT !.result.packet_header.event_counter = BitOr(@, b)])
       ELSE IF i = 11
       THEN next([s EXCEPT !.result.packet_header.event_counter =
                              BitOr(@, ShiftL(b, 8, 16))])
       ELSE IF i >= 12 /\ i <= 15
       THEN next([s EXCEPT !.result.packet_header.delta_time_us =
                              U32OrShl(@, b, i - 12)])
       ELSE IF i >= 16 /\ i <= 19
       THEN next([s EXCEPT !.result.ll_layer_data.access_address =
                              U32OrShl(@, b, i - 16)])
       ELSE IF i = 20
       THEN next([s EXCEPT
                    !.result.ll_layer_data.pdu_type = BitAnd(b, 15),
                    !.result.ll_layer_data.channel_select = ShiftR(BitAnd(b, 32), 5),
                    !.result.ll_layer_data.tx_address_public =
                        (ShiftR(BitAnd(b, 64), 6) = 0),
                    !.result.ll_layer_data.rx_address_public =
                        (ShiftR(BitAnd(b, 128), 7) = 0)])
       ELSE IF i = 21
       THEN IF s.ll_payload_len = 0
            THEN \* byte_index -= 1, then byte_index += 1
                 [s EXCEPT !.ll_payload_len = b]
            ELSE IF from_bad_scan_req(s)
            THEN [s EXCEPT !.returned = TRUE]
            ELSE next(s)
       ELSE IF i >= 22 /\ i <= 27
       THEN next([(IF r.ll_layer_data.pdu_type = ADV_TYPE_ADV_NONCONN_IND
                   THEN [s EXCEPT !.non_conn_ind_msg.advertising_mac[from_mac_slot(i)] = b]
                   ELSE IF r.ll_layer_data.pdu_type = ADV_TYPE_SCAN_REQ
                   THEN [s EXCEPT !.scan_req_msg.scanning_mac[from_mac_slot(i)] = b]
                   ELSE s)
                  EXCEPT !.ll_payload_index = U8Inc(@)])
       ELSE next(from_payload_byte(s, b))

\* A variant of from_finish that attaches no link-layer record: C10 does not
\* hold of it.
from_finish_no_record(s) == [s.result EXCEPT !.valid = TRUE]

\* A variant of from_finish that attaches both records whatever the PDU
\* type: C14 does not hold of it.
from_finish_both(s) ==
    [s.result EXCEPT !.ll_layer_data.non_conn_ind = Some(s.non_conn_ind_msg),
                     !.ll_layer_data.scan_req = Some(s.scan_req_msg),
                     !.valid = TRUE]

\* The code after the loop: attach the payload record, set valid.
from_finish(s) ==
    LET r == s.result
        r1 == IF r.ll_layer_data.pdu_type = ADV_TYPE_ADV_NONCONN_IND
              THEN [r EXCEPT !.ll_layer_data.non_conn_ind = Some(s.non_conn_ind_msg)]
              ELSE IF r.ll_layer_data.pdu_type = ADV_TYPE_SCAN_REQ
              THEN [r EXCEPT !.ll_layer_data.scan_req = Some(s.scan_req_msg)]
              ELSE r
    IN [r1 EXCEPT !.valid = TRUE]

\* The loop from the byte at position i (1-based) on, stopping at an early
\* return.  The locals after one byte are bound as a value (t) before the
\* next iteration reads them.
RECURSIVE from_loop(_, _, _)
from_loop(s, bytes, i) ==
    IF s.returned \/ i > Len(bytes) THEN s
    ELSE CHOOSE r \in { from_loop(t, bytes, i + 1) : t \in { from_byte(s, bytes[i]) } } : TRUE

BlePacket_from(bytes) ==
    LET s == from_loop(from_init, bytes, 1)
    IN IF s.returned THEN s.result ELSE from_finish(s)

(***************************************************************************)
(* get_packet_bytes on a whole byte vector: (packet_list, read_index).     *)
(***************************************************************************)
\* The loop from the byte at position i (1-based) on.
RECURSIVE get_packet_bytes_loop(_, _, _)
get_packet_bytes_loop(g, bytes, i) ==
    IF i > Len(bytes) THEN g
    ELSE get_packet_bytes_loop(get_packet_bytes_iter(g, bytes[i]), bytes, i + 1)

get_packet_bytes(bytes) ==
    LET g == get_packet_bytes_loop(get_packet_bytes_init, bytes, 1)
    IN << g.packet_list, g.read_index >>

(***************************************************************************)
(* Bounds and input sets.                                                  *)
(***************************************************************************)
\* SpecCodec: payloads of at most MaxPayload bytes.
MaxPayload == 3
\* The three reserved bytes, their escape codes, and two ordinary bytes.
CodecBytes == { SLIP_START, SLIP_END, SLIP_ESC,
                SLIP_ESC_START, SLIP_ESC_END, SLIP_ESC_ESC, HEADER_LENGTH, 0 }

RECURSIVE SeqsUpTo(_, _)
SeqsUpTo(S, n) ==
    IF n = 0 THEN { << >> }
    ELSE LET shorter == SeqsUpTo(S, n - 1)
         IN shorter \cup { Append(q, x) : q \in { r \in shorter : Len(r) = n - 1 }, x \in S }

VARIABLES
    \* SpecCodec: get_packet_bytes
    payload,        \* the payload that was encoded
    gpb_bytes,      \* the bytes the loop of get_packet_bytes has still to visit
    gpb,            \* the locals of get_packet_bytes
    cmd,            \* SpecSend: the command built and its arguments
    \* SpecFrom: BlePacket::from
    tmpl,           \* which header and MAC bytes the frame carries
    frame,          \* the bytes of the frame the loop has visited
    fs,             \* the locals of BlePacket::from
    fpc,            \* "loop", "returned" (a return inside the loop), "done"
    fresult,        \* the packet returned
    \* Spec: the worker thread (analyze_serial_packets)
    wpc,            \* the worker's position
    stop_request,
    packet_start,
    previous_byte_is_esc,
    packet_bytes,
    recv,           \* the bytes of recv_buffer the byte loop has still to visit
    serial_tx,      \* the byte vectors written to the serial device, in order
    send_packet_counter,
    nreads,         \* device reads that returned bytes
    consumed,       \* every byte the byte loop has visited, in order
    ref,            \* the locals of get_packet_bytes after it visited consumed
    handed,         \* the frames the byte loop has passed to BlePacket::from
    failed_at,      \* how many bytes had been visited at each failed read
    \* Spec: the consumer (main) and the channels
    STOP_REQUEST,   \* the flag the SIGINT handler sets
    cpc,            \* the consumer's position
    ctrl,           \* control channel, consumer -> worker
    chan,           \* packet channel, worker -> consumer
    received        \* the packets the consumer has taken off the channel

codecVars == << payload, gpb_bytes, gpb, cmd >>
fromVars == << tmpl, frame, fs, fpc, fresult >>
workerVars == << wpc, stop_request, packet_start, previous_byte_is_esc, packet_bytes,
                 recv, serial_tx, send_packet_counter, nreads, consumed, ref, handed, failed_at >>
consumerVars == << STOP_REQUEST, cpc, received >>
pipeVars == << workerVars, consumerVars, ctrl, chan >>
vars == << codecVars, fromVars, pipeVars >>

\* The variables of a part that a specification does not run.
NoCmd == [kind |-> "none", id |-> 0, payload |-> << >>, packet_counter |-> 0,
          find_scan_rsp |-> FALSE, find_aux |-> FALSE, scan_coded |-> FALSE,
          tk |-> 0, built |-> FALSE]
CodecIdle ==
    /\ payload = << >> /\ gpb_bytes = << >> /\ gpb = get_packet_bytes_init
    /\ cmd = NoCmd
FromIdle ==
    /\ tmpl = "zero" /\ frame = << >> /\ fs = from_init
    /\ fpc = "loop" /\ fresult = BlePacket_new
PipeIdle ==
    /\ wpc = "outer_poll" /\ stop_request = FALSE /\ packet_start = FALSE
    /\ previous_byte_is_esc = FALSE /\ packet_bytes = << >> /\ recv = << >>
    /\ serial_tx = << >> /\ send_packet_counter = 0 /\ nreads = 0
    /\ consumed = << >> /\ ref = get_packet_bytes_init /\ handed = << >>
    /\ failed_at = { }
    /\ STOP_REQUEST = FALSE /\ cpc = "check" /\ received = << >>
    /\ ctrl = << >> /\ chan = << >>

(***************************************************************************)
(* SpecCodec: a payload is framed as make_send_bytes frames its content    *)
(* and the result is handed to get_packet_bytes, one loop iteration per    *)
(* step.                                                                   *)
(***************************************************************************)
CodecInit ==
    /\ payload \in SeqsUpTo(CodecBytes, MaxPayload)
    /\ gpb_bytes = slip_frame(payload)
    /\ gpb = get_packet_bytes_init
    /\ cmd = NoCmd
    /\ FromIdle /\ PipeIdle

GetPacketBytesIter ==
    /\ gpb_bytes # << >>
    /\ gpb' = get_packet_bytes_iter(gpb, Head(gpb_bytes))
    /\ gpb_bytes' = Tail(gpb_bytes)
    /\ UNCHANGED << payload, cmd, fromVars, pipeVars >>

CodecNext == GetPacketBytesIter

SpecCodec == CodecInit /\ [][CodecNext]_vars

\* get_packet_bytes has returned.
CodecDone == gpb_bytes = << >>

(***************************************************************************)
(* SpecSend: a command frame is built by make_send_bytes,                  *)
(* make_send_scan_bytes or make_send_tk_bytes from arguments drawn from    *)
(* the sets below, and the frame is unframed and unescaped by              *)
(* get_packet_bytes, one loop iteration per step.                          *)
(***************************************************************************)
\* The length of the one long payload.
MaxLong == 255
\* The two commands of the program, a reserved byte and 0 as identifiers.
SendIds == { REQ_SCAN_CONT, SET_TEMPORARY_KEY, SLIP_START, 0 }
\* Counters with ordinary and reserved bytes in either half: 0xABCD has the
\* low byte ESCAPE and the high byte START, 0xBC00 the high byte END.
SendCounters == { 0, 1, 255, 256, 171 * 256 + 205, 188 * 256, 65535 }
SendKeys == { 0, 1, SLIP_ESC, 255 }
\* Short payloads over the codec's bytes, and one of MaxLong bytes in which
\* every non-zero byte value up to MaxLong occurs.
SendPayloads ==
    SeqsUpTo(CodecBytes, MaxPayload - 1) \cup { [i \in 1..MaxLong |-> (i * 7) % 256] }

SendCmds ==
    { [NoCmd EXCEPT !.kind = "raw", !.id = i, !.payload = p, !.packet_counter = c] :
          i \in SendIds, p \in SendPayloads, c \in SendCounters }
    \cup { [NoCmd EXCEPT !.kind = "scan", !.find_scan_rsp = r, !.find_aux = a,
                         !.scan_coded = d, !.packet_counter = c] :
              r \in BOOLEAN, a \in BOOLEAN, d \in BOOLEAN, c \in SendCounters }
    \cup { [NoCmd EXCEPT !.kind = "tk", !.tk = k, !.packet_counter = c] :
              k \in SendKeys, c \in SendCounters }

SendInit ==
    /\ cmd \in SendCmds
    /\ payload = << >>
    /\ gpb_bytes = << >>
    /\ gpb = get_packet_bytes_init
    /\ FromIdle /\ PipeIdle

\* The call of the builder with the arguments of cmd.
MakeSend ==
    /\ ~cmd.built
    /\ cmd' = [cmd EXCEPT !.built = TRUE]
    /\ gpb_bytes' =
          IF cmd.kind = "scan"
          THEN make_send_scan_bytes(cmd.find_scan_rsp, cmd.find_aux, cmd.scan_coded,
                                    cmd.packet_counter)
          ELSE IF cmd.kind = "tk"
          THEN make_send_tk_bytes(cmd.tk, cmd.packet_counter)
          ELSE make_send_bytes(cmd.id, cmd.payload, cmd.packet_counter)
    /\ UNCHANGED << payload, gpb, fromVars, pipeVars >>

SendNext == MakeSend \/ GetPacketBytesIter

SpecSend == SendInit /\ [][SendNext]_vars

(***************************************************************************)
(* SpecFrom: BlePacket::from run on a frame, one loop iteration per step.  *)
(* The frame is built as it is read: each step draws the next byte from    *)
(* NextBytes, and the frame may end after any byte (FromEnd), so every     *)
(* prefix of every frame of the family is a frame of the family.           *)
(*                                                                         *)
(* A frame of the family is                                                *)
(*   byte 0       6, or another value,                                     *)
(*   bytes 1..19  the header of its template,                              *)
(*   byte 20      a PDU header byte,                                       *)
(*   then         up to MaxZeros zero bytes, a length byte, one more byte, *)
(*                six MAC bytes, and a tail that depends on the PDU type.  *)
(***************************************************************************)
\* Zero bytes in front of the length byte; bytes of AD data after the MAC.
MaxZeros == 1
MaxTail == 5

Templates == { "zero", "adv", "data", "flags", "name", "long" }

\* Bytes 1..19 of the frame (indexed 1..19).
TemplateHeader(t) ==
    IF t = "zero" THEN [i \in 1..19 |-> 0]
    ELSE << 37, 3, 52, 18, (IF t = "data" THEN EVENT_PACKET_DATA_PDU ELSE EVENT_PACKET_ADV_PDU),
            10, (IF t = "data" THEN 45 ELSE 53), 38, 64, 120, 86, 1, 2, 3, 4,
            214, 190, 137, 142 >>

FirstBytes == { HEADER_LENGTH, 0, 5, 255 }
\* ADV_NONCONN_IND, SCAN_REQ, and CONNECT_REQ with ChSel, TxAdd and RxAdd set.
PduOther == 128 + 64 + 32 + 5
PduBytes(t) ==
    IF t = "data" THEN { PduOther }
    ELSE IF t \in { "flags", "name" } THEN { ADV_TYPE_ADV_NONCONN_IND }
    ELSE { ADV_TYPE_ADV_NONCONN_IND, ADV_TYPE_SCAN_REQ, PduOther }
LenBytes == { 3, 8, 11, 12 }
PadBytes == { 0, 7 }
WireMac1 == << 17, 34, 51, 68, 85, 102 >>
WireMac2 == << 161, 162, 163, 164, 165, 166 >>
ADBytes == { 0, 1, 2, 3, 9, 255 }
\* Template "flags": an advertisement that declares 6 MAC bytes and 6 or 8
\* bytes of AD data made of the lengths 1 and 2, the type 0x01 and the flag
\* bytes 0b00101 and 0b11010.
FlagLenBytes == { 12, 14 }
FlagADBytes == { 1, 2, 5, 26 }
\* Template "name": an advertisement that declares 6 MAC bytes and 3 or 6
\* bytes of AD data made of the length 2, the type 0x09, the letter "A" and
\* the byte 0xFF, which no UTF-8 text contains.
NameLenBytes == { 9, 12 }
NameADBytes == { 2, 9, 65, 255 }
\* Template "long": a frame of any of the three PDU types that declares the
\* largest length, 255, and carries MaxLongTail bytes after the MAC: an AD
\* length byte 0, 1 or 255, the type 0xFF, and value bytes 1.
MaxLongTail == 255
LongFirstADBytes == { 0, 1, 255 }

\* The number of leading zero bytes of q.
RECURSIVE LeadingZeros(_)
LeadingZeros(q) ==
    IF q = << >> \/ Head(q) # 0 THEN 0 ELSE 1 + LeadingZeros(Tail(q))

\* The part of a frame after its PDU header byte.
AfterPdu(f) == SubSeq(f, 22, Len(f))

\* The bytes that may follow the bytes f of a frame of template t.
NextBytes(t, f) ==
    LET n == Len(f)
    IN IF n = 0 THEN FirstBytes
       ELSE IF n <= 19 THEN { TemplateHeader(t)[n] }
       ELSE IF n = 20 THEN PduBytes(t)
       ELSE LET a == AfterPdu(f)
                z == LeadingZeros(a)
                k == Len(a) - z     \* bytes from the length byte on
                pdu == f[21]
            IN IF t = "long"
               THEN (IF k = 0 THEN { 255 }
                     ELSE IF k = 1 THEN { 0 }
                     ELSE IF k <= 7 THEN { WireMac1[k - 1] }
                     ELSE IF k = 8 THEN LongFirstADBytes
                     ELSE IF k = 9 THEN { 255 }
                     ELSE IF k - 8 < MaxLongTail THEN { 1 } ELSE { })
               ELSE IF t \in { "flags", "name" }
               THEN (IF k = 0 THEN (IF t = "flags" THEN FlagLenBytes ELSE NameLenBytes)
                     ELSE IF k = 1 THEN { 0 }
                     ELSE IF k <= 7 THEN { WireMac1[k - 1] }
                     ELSE IF k - 8 < a[1] - 6
                     THEN (IF t = "flags" THEN FlagADBytes ELSE NameADBytes)
                     ELSE { })
               ELSE IF k = 0
               THEN (IF z < MaxZeros + (IF t = "zero" THEN 1 ELSE 0) THEN { 0 } ELSE { })
                    \cup (IF t = "zero" THEN { } ELSE LenBytes)
               ELSE IF k = 1 THEN PadBytes
               ELSE IF k <= 7 THEN { WireMac1[k - 1] }
               ELSE IF pdu = ADV_TYPE_ADV_NONCONN_IND
               THEN (IF k - 8 < MaxTail THEN ADBytes ELSE { })
               ELSE IF pdu = ADV_TYPE_SCAN_REQ
               THEN (IF k <= 13 THEN { WireMac2[k - 7] }
                     ELSE IF k = 14 THEN { 9 } ELSE { })
               ELSE (IF k = 8 THEN { 9 } ELSE { })

FromInit ==
    /\ tmpl \in Templates
    /\ frame = << >>
    /\ fs = from_init
    /\ fpc = "loop"
    /\ fresult = BlePacket_new
    /\ CodecIdle /\ PipeIdle

\* One iteration of the loop on the next byte b of the frame.
FromByte ==
    /\ fpc = "loop"
    /\ \E b \in NextBytes(tmpl, frame) :
          LET s == from_byte(fs, b)
          IN /\ frame' = Append(frame, b)
             /\ fs' = s
             /\ IF s.returned
                THEN fpc' = "returned" /\ fresult' = s.result
                ELSE fpc' = "loop" /\ fresult' = fresult
    /\ UNCHANGED << tmpl, codecVars, pipeVars >>

\* The frame has no more bytes: the code after the loop.
FromEnd ==
    /\ fpc = "loop"
    /\ fpc' = "done"
    /\ fresult' = from_finish(fs)
    /\ UNCHANGED << tmpl, frame, fs, codecVars, pipeVars >>

FromNext == FromByte \/ FromEnd

SpecFrom == FromInit /\ [][FromNext]_vars

\* BlePacket::from has returned fresult.
FromReturned == fpc \in { "returned", "done" }

(***************************************************************************)
(* Spec: the worker thread (analyze_serial_packets) and the consumer       *)
(* (the loop of main), joined by the control channel and the packet        *)
(* channel.                                                                *)
(***************************************************************************)
\* thread_should_stop: every pending message is taken off the channel; the
\* result is whether one of them is the stop message.
thread_should_stop(pending) == \E i \in 1..Len(pending) : pending[i] = "thread-stop"

\* A variant of analyze_unescape that pushes the escape code itself: C9 does
\* not hold of it.
analyze_unescape_raw(b) == b

\* The byte pushed for the byte b that follows an ESCAPE.
analyze_unescape(b) ==
    IF b = SLIP_ESC_START THEN SLIP_START
    ELSE IF b = SLIP_ESC_END THEN SLIP_END
    ELSE IF b = SLIP_ESC_ESC THEN SLIP_ESC
    ELSE b

\* One iteration of the byte loop of analyze_serial_packets on the codec
\* state c = [packet_start, previous_byte_is_esc, packet_bytes]; `emit` is
\* the frame handed to BlePacket::from, as an Option.
analyze_byte(c0, b) ==
    LET c == [c0 EXCEPT !.emit = None]
    IN IF ~c.packet_start
       THEN [c EXCEPT !.packet_start = (b = SLIP_START)]
       ELSE IF b = SLIP_END
       THEN [c EXCEPT !.packet_start = FALSE,
                      !.emit = Some(c.packet_bytes),
                      !.packet_bytes = << >>]
       ELSE IF b = SLIP_ESC
       THEN [c EXCEPT !.previous_byte_is_esc = TRUE]
       ELSE IF c.previous_byte_is_esc
       THEN [c EXCEPT !.packet_bytes = Append(@, analyze_unescape(b)),
                      !.previous_byte_is_esc = FALSE]
       ELSE [c EXCEPT !.packet_bytes = Append(@, b)]

\* A variant of publish that sends the packet whatever its valid flag: C6
\* does not hold of it.
publish_unchecked(frame_bytes) == << BlePacket_from(frame_bytes) >>

\* What tx.send is given for a completed frame: the packet when it is valid.
publish(frame_bytes) ==
    LET ble_packet == BlePacket_from(frame_bytes)
    IN IF ble_packet.valid THEN << ble_packet >> ELSE << >>

\* Device reads that return bytes, over the worker's life.
MaxReads == 2

\* A frame with byte 0 = 6, PDU type ADV_NONCONN_IND at byte 20, a zero
\* length byte, and every other byte zero.
ZeroAdvFrame == << HEADER_LENGTH >> \o [i \in 1..19 |-> 0] \o << ADV_TYPE_ADV_NONCONN_IND, 0 >>

\* What one read of the device may return: a lone START or END; a whole
\* valid frame with an escaped END; an invalid frame followed by a valid one
\* with an escaped START and an escaped ESCAPE; the all-zero advertisement;
\* or either half of a frame cut between ESCAPE and the byte it escapes.
ReadChunks ==
    { << SLIP_START >>, << SLIP_END >>,
      slip_frame(<< HEADER_LENGTH, SLIP_END, 1 >>),
      slip_frame(<< 5 >>) \o slip_frame(<< HEADER_LENGTH, SLIP_START, SLIP_ESC >>),
      slip_frame(ZeroAdvFrame),
      << SLIP_START, HEADER_LENGTH, SLIP_ESC >>,
      << SLIP_ESC_END, 1, SLIP_END >> }

Init ==
    /\ wpc = "outer_poll"
    /\ stop_request = FALSE
    /\ packet_start = FALSE
    /\ previous_byte_is_esc = FALSE
    /\ packet_bytes = << >>
    /\ recv = << >>
    /\ serial_tx = << >>
    /\ send_packet_counter = 0
    /\ nreads = 0
    /\ consumed = << >>
    /\ ref = get_packet_bytes_init
    /\ handed = << >>
    /\ failed_at = { }
    /\ STOP_REQUEST = FALSE
    /\ cpc = "check"
    /\ received = << >>
    /\ ctrl = << >>
    /\ chan = << >>
    /\ CodecIdle /\ FromIdle

\* ---- the worker ----

\* A variant of OuterPoll that forgets stop_request: C8 does not hold of it.
OuterPoll_no_request ==
    /\ wpc = "outer_poll"
    /\ ctrl' = << >>
    /\ wpc' = IF thread_should_stop(ctrl) THEN "stopped" ELSE "open"
    /\ UNCHANGED << stop_request, packet_start, previous_byte_is_esc, packet_bytes,
                    recv, serial_tx, send_packet_counter, nreads, consumed, ref, handed, failed_at,
                    consumerVars, chan, codecVars, fromVars >>

\* A variant of OuterPoll that notes a stop seen while connecting and still
\* tries the device once more: C19 does not hold of it.
OuterPoll_one_more_open ==
    /\ wpc = "outer_poll"
    /\ ctrl' = << >>
    /\ stop_request' = (stop_request \/ thread_should_stop(ctrl))
    /\ wpc' = IF stop_request THEN "stopped" ELSE "open"
    /\ UNCHANGED << packet_start, previous_byte_is_esc, packet_bytes,
                    recv, serial_tx, send_packet_counter, nreads, consumed, ref, handed, failed_at,
                    consumerVars, chan, codecVars, fromVars >>

\* The top of the outer loop: poll the control channel, leave on a stop.
OuterPoll ==
    /\ wpc = "outer_poll"
    /\ ctrl' = << >>
    /\ wpc' = IF thread_should_stop(ctrl) \/ stop_request THEN "stopped" ELSE "open"
    /\ UNCHANGED << stop_request, packet_start, previous_byte_is_esc, packet_bytes,
                    recv, serial_tx, send_packet_counter, nreads, consumed, ref, handed, failed_at,
                    consumerVars, chan, codecVars, fromVars >>

\* serialport::new(..).open() fails: report, next iteration of the outer loop.
OpenFail ==
    /\ wpc = "open"
    /\ wpc' = "outer_poll"
    /\ UNCHANGED << stop_request, packet_start, previous_byte_is_esc, packet_bytes,
                    recv, serial_tx, send_packet_counter, nreads, consumed, ref, handed, failed_at,
                    consumerVars, ctrl, chan, codecVars, fromVars >>

OpenOk ==
    /\ wpc = "open"
    /\ send_packet_counter' = 0
    /\ wpc' = "write_scan"
    /\ UNCHANGED << stop_request, packet_start, previous_byte_is_esc, packet_bytes,
                    recv, serial_tx, nreads, consumed, ref, handed, failed_at,
                    consumerVars, ctrl, chan, codecVars, fromVars >>

\* The scan-configuration command; write_all may fail, which is reported only.
WriteScan ==
    /\ wpc = "write_scan"
    /\ \E ok \in BOOLEAN :
          serial_tx' = IF ok
                       THEN Append(serial_tx,
                                   make_send_scan_bytes(FALSE, FALSE, FALSE,
                                                        send_packet_counter))
                       ELSE serial_tx
    /\ send_packet_counter' = (send_packet_counter + 1) % 65536
    /\ wpc' = "write_tk"
    /\ UNCHANGED << stop_request, packet_start, previous_byte_is_esc, packet_bytes,
                    recv, nreads, consumed, ref, handed, failed_at,
                    consumerVars, ctrl, chan, codecVars, fromVars >>

\* The temporary-key command.
WriteTk ==
    /\ wpc = "write_tk"
    /\ \E ok \in BOOLEAN :
          serial_tx' = IF ok
                       THEN Append(serial_tx, make_send_tk_bytes(0, send_packet_counter))
                       ELSE serial_tx
    /\ wpc' = "inner_poll"
    /\ UNCHANGED << stop_request, packet_start, previous_byte_is_esc, packet_bytes,
                    recv, send_packet_counter, nreads, consumed, ref, handed, failed_at,
                    consumerVars, ctrl, chan, codecVars, fromVars >>

\* A variant of InnerPoll that keeps streaming after a stop: C2 does not hold
\* of it.
InnerPoll_no_break ==
    /\ wpc = "inner_poll"
    /\ ctrl' = << >>
    /\ stop_request' = (stop_request \/ thread_should_stop(ctrl))
    /\ wpc' = "read"
    /\ UNCHANGED << packet_start, previous_byte_is_esc, packet_bytes,
                    recv, serial_tx, send_packet_counter, nreads, consumed, ref, handed, failed_at,
                    consumerVars, chan, codecVars, fromVars >>

\* The top of the inner loop: poll the control channel; on a stop set
\* stop_request and break to the end of the outer loop's iteration.
InnerPoll ==
    /\ wpc = "inner_poll"
    /\ ctrl' = << >>
    /\ IF thread_should_stop(ctrl)
       THEN stop_request' = TRUE /\ wpc' = "outer_poll"
       ELSE stop_request' = stop_request /\ wpc' = "read"
    /\ UNCHANGED << packet_start, previous_byte_is_esc, packet_bytes,
                    recv, serial_tx, send_packet_counter, nreads, consumed, ref, handed, failed_at,
                    consumerVars, chan, codecVars, fromVars >>

\* A variant of ReadOk that starts every read with a fresh decoder state:
\* C15 does not hold of it.
ReadOk_fresh ==
    /\ wpc = "read"
    /\ nreads < MaxReads
    /\ \E chunk \in ReadChunks : recv' = chunk
    /\ nreads' = nreads + 1
    /\ wpc' = "bytes"
    /\ packet_start' = FALSE
    /\ previous_byte_is_esc' = FALSE
    /\ packet_bytes' = << >>
    /\ UNCHANGED << stop_request, serial_tx, send_packet_counter, consumed, ref, handed, failed_at,
                    consumerVars, ctrl, chan, codecVars, fromVars >>

\* serial.read returns Ok(available_len) with the bytes of chunk.
ReadOk ==
    /\ wpc = "read"
    /\ nreads < MaxReads
    /\ \E chunk \in ReadChunks : recv' = chunk
    /\ nreads' = nreads + 1
    /\ wpc' = "bytes"
    /\ UNCHANGED << stop_request, packet_start, previous_byte_is_esc, packet_bytes,
                    serial_tx, send_packet_counter, consumed, ref, handed, failed_at,
                    consumerVars, ctrl, chan, codecVars, fromVars >>

\* A variant of ReadErr that drops the frame being assembled: C21 does not
\* hold of it.
ReadErr_drop_partial ==
    /\ wpc = "read"
    /\ wpc' = "inner_poll"
    /\ failed_at' = failed_at \cup { Len(consumed) }
    /\ packet_start' = FALSE
    /\ previous_byte_is_esc' = FALSE
    /\ packet_bytes' = << >>
    /\ UNCHANGED << stop_request, recv, serial_tx, send_packet_counter, nreads,
                    consumed, ref, handed,
                    consumerVars, ctrl, chan, codecVars, fromVars >>

\* A variant of ReadErr that leaves the inner loop to connect again: C20
\* does not hold of it.
ReadErr_reconnect ==
    /\ wpc = "read"
    /\ wpc' = "outer_poll"
    /\ failed_at' = failed_at \cup { Len(consumed) }
    /\ UNCHANGED << stop_request, packet_start, previous_byte_is_esc, packet_bytes,
                    recv, serial_tx, send_packet_counter, nreads, consumed, ref, handed,
                    consumerVars, ctrl, chan, codecVars, fromVars >>

\* serial.read returns an error (a timeout with nothing to read is one), or
\* no byte: nothing is decoded.
ReadErr ==
    /\ wpc = "read"
    /\ wpc' = "inner_poll"
    /\ failed_at' = failed_at \cup { Len(consumed) }
    /\ UNCHANGED << stop_request, packet_start, previous_byte_is_esc, packet_bytes,
                    recv, serial_tx, send_packet_counter, nreads, consumed, ref, handed,
                    consumerVars, ctrl, chan, codecVars, fromVars >>

\* One iteration of "for b in recv_buffer"; after the last byte that was
\* read the loop breaks and the inner loop starts over.
ProcessByte ==
    /\ wpc = "bytes"
    /\ recv # << >>
    /\ LET c == analyze_byte([packet_start |-> packet_start,
                              previous_byte_is_esc |-> previous_byte_is_esc,
                              packet_bytes |-> packet_bytes,
                              emit |-> None], Head(recv))
       IN /\ packet_start' = c.packet_start
          /\ previous_byte_is_esc' = c.previous_byte_is_esc
          /\ packet_bytes' = c.packet_bytes
          /\ chan' = IF c.emit = None THEN chan ELSE chan \o publish(c.emit[1])
          /\ handed' = IF c.emit = None THEN handed ELSE Append(handed, c.emit[1])
    /\ consumed' = Append(consumed, Head(recv))
    /\ ref' = get_packet_bytes_iter(ref, Head(recv))
    /\ recv' = Tail(recv)
    /\ wpc' = IF Tail(recv) = << >> THEN "inner_poll" ELSE "bytes"
    /\ UNCHANGED << stop_request, serial_tx, send_packet_counter, nreads, failed_at,
                    consumerVars, ctrl, codecVars, fromVars >>

WorkerNext ==
    \/ OuterPoll \/ OpenFail \/ OpenOk \/ WriteScan \/ WriteTk
    \/ InnerPoll \/ ReadOk \/ ReadErr \/ ProcessByte

\* ---- the consumer ----

\* SIGINT: signal_handler sets STOP_REQUEST.
Signal ==
    /\ ~STOP_REQUEST
    /\ STOP_REQUEST' = TRUE
    /\ UNCHANGED << cpc, received, workerVars, ctrl, chan, codecVars, fromVars >>

\* The top of main's loop with STOP_REQUEST set: send the stop message, break.
ConsumerStop ==
    /\ cpc = "check"
    /\ STOP_REQUEST
    /\ ctrl' = Append(ctrl, "thread-stop")
    /\ cpc' = "join"
    /\ UNCHANGED << STOP_REQUEST, received, workerVars, chan, codecVars, fromVars >>

\* The top of main's loop with STOP_REQUEST clear: go on to drain the channel.
ConsumerGo ==
    /\ cpc = "check"
    /\ ~STOP_REQUEST
    /\ cpc' = "drain"
    /\ UNCHANGED << STOP_REQUEST, received, workerVars, ctrl, chan, codecVars, fromVars >>

\* this_rx.try_recv() returns a packet.
ConsumerRecv ==
    /\ cpc = "drain"
    /\ chan # << >>
    /\ received' = Append(received, Head(chan))
    /\ chan' = Tail(chan)
    /\ UNCHANGED << STOP_REQUEST, cpc, workerVars, ctrl, codecVars, fromVars >>

\* this_rx.try_recv() finds the channel empty: next iteration of main's loop.
ConsumerEmpty ==
    /\ cpc = "drain"
    /\ chan = << >>
    /\ cpc' = "check"
    /\ UNCHANGED << STOP_REQUEST, received, workerVars, ctrl, chan, codecVars, fromVars >>

\* thread_handle.join() returns once the worker's function has returned.
ConsumerJoin ==
    /\ cpc = "join"
    /\ wpc = "stopped"
    /\ cpc' = "exited"
    /\ UNCHANGED << STOP_REQUEST, received, workerVars, ctrl, chan, codecVars, fromVars >>

ConsumerNext ==
    \/ ConsumerStop \/ ConsumerGo \/ ConsumerRecv \/ ConsumerEmpty \/ ConsumerJoin

Next == WorkerNext \/ Signal \/ ConsumerNext

Spec == Init /\ [][Next]_vars

\* The two threads are scheduled fairly.  A SIGINT need never arrive.
FairSpec == Spec /\ WF_vars(WorkerNext) /\ WF_vars(ConsumerNext)

(***************************************************************************)
(* Properties.                                                             *)
(***************************************************************************)

\* C1 (SpecCodec).  Round trip of the frame codec: once get_packet_bytes has
\* visited every byte of START, add_bytes_to_slip(each payload byte), END,
\* starting in awaiting-start with the escape flag clear, it has emitted
\* exactly one frame, equal to the payload, and has counted every byte.
C1_RoundTrip ==
    CodecDone =>
        /\ gpb.packet_list = << payload >>
        /\ gpb.read_index = Len(slip_frame(payload))
        /\ get_packet_bytes(slip_frame(payload))[1] = << payload >>

\* C1 witness: a payload made of START, END and ESCAPE has made the trip.
C1_Witness ==
    /\ CodecDone
    /\ payload = << SLIP_START, SLIP_END, SLIP_ESC >>
    /\ gpb.packet_list = << payload >>

\* The frame ends before the header, the link-layer header and the
\* payload-length byte (indices 0..21), or before the payload bytes that the
\* length byte declares.
Truncated(f) == Len(f) < 22 \/ Len(f) - 22 < f[22]

\* C3 (SpecFrom), as claimed.  A truncated frame, the empty frame and the
\* frame <<6>> included, is returned with valid = FALSE and is not published.
C3_TruncatedInvalid ==
    (fpc = "done" /\ Truncated(frame)) =>
        (fresult.valid = FALSE /\ publish(frame) = << >>)

\* The PDU type of a frame that has its PDU header byte, and the byte at the
\* link-layer length position.
PduTypeOf(f) == BitAnd(f[21], 15)
LengthByteOf(f) == f[22]

\* C4 (SpecFrom), as claimed.  A frame with byte 0 = 6, PDU type ScanRequest
\* and a length byte other than 12, whatever follows the length byte, is
\* returned with valid = FALSE and without a ScanRequest record.
C4_ScanReqRejected ==
    (/\ FromReturned
     /\ Len(frame) >= 22
     /\ frame[1] = HEADER_LENGTH
     /\ PduTypeOf(frame) = ADV_TYPE_SCAN_REQ
     /\ LengthByteOf(frame) # 12)
    => (fresult.valid = FALSE /\ fresult.ll_layer_data.scan_req = None)

\* C5 (SpecFrom).  A non-empty frame whose first byte is not 6: the loop
\* returns at that byte with valid = FALSE, and whatever bytes follow it,
\* BlePacket::from gives valid = FALSE and the worker publishes nothing.
C5_Rests == SeqsUpTo({ HEADER_LENGTH, 0, ADV_TYPE_SCAN_REQ }, 2)

C5_BadHeaderInvalid ==
    (frame # << >> /\ frame[1] # HEADER_LENGTH) =>
        /\ fpc = "returned"
        /\ fresult.valid = FALSE
        /\ \A rest \in C5_Rests :
              /\ BlePacket_from(frame \o rest).valid = FALSE
              /\ publish(frame \o rest) = << >>

\* C5 witness: the frame <<5>> has been returned.
C5_Witness == fpc = "returned" /\ frame = << 5 >> /\ fresult.valid = FALSE

\* The layout of a NonConnectableAdvertisement frame as the decoder reads
\* it: after the PDU header byte, zero bytes, the length byte L, one byte,
\* six MAC bytes, and the AD data.
ZerosOf(f) == LeadingZeros(AfterPdu(f))
DeclaredLen(f) == AfterPdu(f)[ZerosOf(f) + 1]
ADData(f) == SubSeq(AfterPdu(f), ZerosOf(f) + 9, Len(AfterPdu(f)))

\* Well-formed AD structures (a length byte L >= 1, a type byte, L - 1 value
\* bytes) that fill ad exactly, and their type bytes in order.
RECURSIVE WellFormedAD(_)
WellFormedAD(ad) ==
    \/ ad = << >>
    \/ /\ ad[1] >= 1
       /\ Len(ad) >= ad[1] + 1
       /\ WellFormedAD(SubSeq(ad, ad[1] + 2, Len(ad)))

RECURSIVE ADTypes(_)
ADTypes(ad) ==
    IF ad = << >> THEN << >>
    ELSE << ad[2] >> \o ADTypes(SubSeq(ad, ad[1] + 2, Len(ad)))

\* The length bytes of the structures of a well-formed ad.
RECURSIVE ADLengths(_)
ADLengths(ad) ==
    IF ad = << >> THEN { }
    ELSE { ad[1] } \cup ADLengths(SubSeq(ad, ad[1] + 2, Len(ad)))

IsExactNonConn(f) ==
    /\ Len(f) >= 22
    /\ f[1] = HEADER_LENGTH
    /\ PduTypeOf(f) = ADV_TYPE_ADV_NONCONN_IND
    /\ Len(AfterPdu(f)) >= ZerosOf(f) + 8
    /\ DeclaredLen(f) >= 6
    /\ Len(ADData(f)) = DeclaredLen(f) - 6
    /\ WellFormedAD(ADData(f))

\* C7 (SpecFrom), as claimed.  For a NonConnectableAdvertisement frame whose
\* AD data is N well-formed AD structures (L = 1 included) that exactly fill
\* the declared length, advertising_types is the N type bytes in order.
C7_AllTypesRecorded ==
    (fpc = "done" /\ IsExactNonConn(frame)) =>
        /\ fresult.ll_layer_data.non_conn_ind # None
        /\ fresult.ll_layer_data.non_conn_ind[1].advertising_types = ADTypes(ADData(frame))

\* ---- the pipeline ----

\* Every packet sent on the packet channel so far, in order.
Published == received \o chan

\* The consumer has sent the stop message.
StopSent == cpc \in { "join", "exited" }

\* A poll of the control channel by the worker has returned true.
StopObserved == stop_request \/ wpc = "stopped"

\* The step is a poll of the control channel by the worker.
PollStep == wpc \in { "outer_poll", "inner_poll" } /\ wpc' # wpc

\* The step is one iteration of the worker's byte loop.
ByteStep == wpc = "bytes" /\ recv # << >> /\ consumed' # consumed

\* C2 (Spec), as claimed.  Once the consumer has sent the stop message, the
\* worker sends no further packet.
C2_NoPublishAfterStopSent ==
    [][StopSent => Published' = Published]_vars

\* C2 (Spec), amended.  The worker's first poll of the control channel after
\* the stop message was sent returns true, and once a poll has returned
\* true the worker sends no further packet.
C2_NoPublishAfterStopObserved ==
    [][/\ (StopSent /\ PollStep) => StopObserved'
       /\ StopObserved => (StopObserved' /\ Published' = Published)]_vars

\* C2 witness: the worker has stopped on a stop message although it had
\* published and could have read more.
C2_Witness ==
    /\ wpc = "stopped" /\ stop_request /\ StopSent
    /\ Published # << >>
    /\ nreads < MaxReads

\* The frames completed in the bytes the worker has visited, and the packets
\* of those that decode with valid = TRUE, in order.
CompletedFrames == ref.packet_list

RECURSIVE ValidPackets(_)
ValidPackets(q) ==
    IF q = << >> THEN << >>
    ELSE LET p == BlePacket_from(Head(q))
         IN (IF p.valid THEN << p >> ELSE << >>) \o ValidPackets(Tail(q))

\* C6 (Spec), as claimed.  When the worker has stopped and main has left its
\* loop, the packets the consumer received are exactly the valid packets of
\* the completed frames, in order.
C6_ReceivedAll ==
    (cpc = "exited" /\ wpc = "stopped") => received = ValidPackets(CompletedFrames)

\* C6 (Spec), amended.  At every moment the packets the consumer has
\* received, followed by those still in the packet channel, are exactly the
\* valid packets of the completed frames, in order.
C6_PublishedExact == Published = ValidPackets(CompletedFrames)

\* C6 witness: the consumer has received two different packets whose frames
\* had an invalid frame between them.
C6_Witness ==
    /\ Len(received) = 2 /\ received[1] # received[2]
    /\ Len(CompletedFrames) = 3
    /\ ~BlePacket_from(CompletedFrames[2]).valid

\* C8 (FairSpec).  Once the consumer has sent the stop message, the worker
\* eventually stops and the consumer's join returns.
C8_StopHonoured == StopSent ~> (wpc = "stopped" /\ cpc = "exited")

\* C8 witness: a stop that arrived while the worker was streaming.
C8_Witness ==
    /\ cpc = "exited" /\ wpc = "stopped" /\ stop_request /\ nreads > 0

\* The wire byte after an ESCAPE and the literal it stands for.
EscapePairs ==
    { << SLIP_ESC_END, SLIP_END >>, << SLIP_ESC_START, SLIP_START >>,
      << SLIP_ESC_ESC, SLIP_ESC >> }

\* C9 (Spec).  While a frame is open, the byte after an ESCAPE appends the
\* literal it stands for and leaves the frame open, sending nothing, in the
\* worker's byte loop and in get_packet_bytes alike; only an END byte closes
\* the frame, and what is then decoded (and what get_packet_bytes emits) is
\* the payload accumulated, literals included.
C9_EscapeInFrame ==
    [][(ByteStep /\ packet_start) =>
         /\ \A pr \in EscapePairs :
               (/\ consumed # << >>
                /\ consumed[Len(consumed)] = SLIP_ESC
                /\ Head(recv) = pr[1])
               => (/\ packet_bytes' = Append(packet_bytes, pr[2])
                   /\ packet_start'
                   /\ Published' = Published
                   /\ ref'.packet_bytes = Append(ref.packet_bytes, pr[2])
                   /\ ref'.packet_start
                   /\ ref'.packet_list = ref.packet_list)
         /\ ~packet_start' <=> Head(recv) = SLIP_END
         /\ Head(recv) = SLIP_END =>
               /\ Published' = Published \o ValidPackets(<< packet_bytes >>)
               /\ ref'.packet_list = Append(ref.packet_list, packet_bytes)]_vars

\* C9 witness: ESCAPE and 0xBD arrived in two reads and the open frame holds
\* the literal END.
C9_Witness ==
    /\ packet_start
    /\ packet_bytes = << HEADER_LENGTH, SLIP_END >>
    /\ nreads = 2

\* A frame with byte 0 = 6, byte 20 = ADV_NONCONN_IND, a length byte, and
\* every other byte zero.
IsZeroAdv(f) ==
    /\ Len(f) >= 22
    /\ f[1] = HEADER_LENGTH
    /\ f[21] = ADV_TYPE_ADV_NONCONN_IND
    /\ \A i \in 1..Len(f) : (i # 1 /\ i # 21) => f[i] = 0

\* C10 (Spec).  When END closes such a frame, exactly one packet is sent; it
\* has valid = TRUE and a NonConnectableAdvertisement record with an all-zero
\* MAC, no type code, and no Flags, name, TX power or manufacturer data.
C10_ZeroAdvPublished ==
    [][(ByteStep /\ packet_start /\ Head(recv) = SLIP_END /\ IsZeroAdv(packet_bytes)) =>
         /\ Len(chan') = Len(chan) + 1
         /\ SubSeq(chan', 1, Len(chan)) = chan
         /\ LET p == chan'[Len(chan')]
            IN /\ p.valid = TRUE
               /\ p.ll_layer_data.pdu_type = ADV_TYPE_ADV_NONCONN_IND
               /\ p.ll_layer_data.scan_req = None
               /\ p.ll_layer_data.non_conn_ind =
                     Some([advertising_mac |-> << 0, 0, 0, 0, 0, 0 >>,
                           advertising_types |-> << >>,
                           flags |-> None,
                           complete_local_name |-> None,
                           tx_power_level |-> None,
                           manufacturer_data |-> None])]_vars

\* C10 witness: the packet of the all-zero advertisement has been sent.
C10_Witness ==
    /\ consumed = slip_frame(ZeroAdvFrame)
    /\ Len(Published) = 1
    /\ Published[1].ll_layer_data.non_conn_ind # None

\* The five bits of a Flags value byte.
FlagsOf(b) ==
    [simultaneous_host |-> (BitAnd(ShiftR(b, 4), 1) = 1),
     simultaneous_controller |-> (BitAnd(ShiftR(b, 3), 1) = 1),
     br_edr_support |-> (BitAnd(ShiftR(b, 2), 1) = 1),
     le_general_discoverale |-> (BitAnd(ShiftR(b, 1), 1) = 1),
     le_limited_discoverable |-> (BitAnd(b, 1) = 1)]

\* The flag bytes of the structures of type 0x01 and length 2 of a
\* well-formed ad, in order, and the number of its structures of type 0x01.
RECURSIVE ADFlagBytes(_)
ADFlagBytes(ad) ==
    IF ad = << >> THEN << >>
    ELSE (IF ad[1] = 2 /\ ad[2] = 1 THEN << ad[3] >> ELSE << >>)
         \o ADFlagBytes(SubSeq(ad, ad[1] + 2, Len(ad)))

ADFlagCount(ad) == Cardinality({ i \in 1..Len(ADTypes(ad)) : ADTypes(ad)[i] = 1 })

\* The frame is an advertisement whose well-formed AD data holds exactly two
\* structures of type 0x01, both of length 2, with different flag bytes.
HasTwoFlags(f) ==
    /\ IsExactNonConn(f)
    /\ ADFlagCount(ADData(f)) = 2
    /\ Len(ADFlagBytes(ADData(f))) = 2
    /\ ADFlagBytes(ADData(f))[1] # ADFlagBytes(ADData(f))[2]

\* C11 (SpecFrom), as claimed.  For an advertisement whose AD data holds two
\* structures of type 0x01 and length 2 with different flag bytes, the Flags
\* of the decoded record are bits 0..4 of the second structure's flag byte.
C11_FlagsLastWins ==
    (fpc = "done" /\ HasTwoFlags(frame)) =>
        /\ fresult.valid = TRUE
        /\ fresult.ll_layer_data.non_conn_ind # None
        /\ fresult.ll_layer_data.non_conn_ind[1].flags =
              Some(FlagsOf(ADFlagBytes(ADData(frame))[2]))

\* C11 restricted to AD data whose structures all have a length byte of at
\* least 2.
C11_FlagsLastWinsL2 ==
    (fpc = "done" /\ HasTwoFlags(frame)
       /\ \A l \in ADLengths(ADData(frame)) : l >= 2) =>
        /\ fresult.valid = TRUE
        /\ fresult.ll_layer_data.non_conn_ind # None
        /\ fresult.ll_layer_data.non_conn_ind[1].flags =
              Some(FlagsOf(ADFlagBytes(ADData(frame))[2]))

\* A frame of that kind has been decoded.
C11_L2Reached ==
    ~(fpc = "done" /\ HasTwoFlags(frame) /\ \A l \in ADLengths(ADData(frame)) : l >= 2)

\* Six bytes in the opposite order.
Reversed(m) == [i \in 1..6 |-> m[7 - i]]

\* The frame has a length byte; the six bytes read as the first MAC (after
\* the byte that follows the length byte) and the six bytes after them.
HasLength(f) == Len(f) >= 22 /\ Len(AfterPdu(f)) > ZerosOf(f)
FirstMac(f) == SubSeq(AfterPdu(f), ZerosOf(f) + 3, ZerosOf(f) + 8)
SecondMac(f) == SubSeq(AfterPdu(f), ZerosOf(f) + 9, ZerosOf(f) + 14)
HasFirstMac(f) == HasLength(f) /\ Len(AfterPdu(f)) >= ZerosOf(f) + 8
HasSecondMac(f) == HasLength(f) /\ Len(AfterPdu(f)) >= ZerosOf(f) + 14

\* C12 (SpecFrom).  Once the loop has read the six MAC bytes w0..w5 of an
\* advertisement or of a ScanRequest, the advertiser MAC (the scanner MAC for
\* a ScanRequest) is [w5, .., w0]; once it has read the next six bytes of a
\* ScanRequest, the advertiser MAC is those bytes reversed; and the record of
\* the returned packet holds the same arrays.
C12_MacReversed ==
    (frame # << >> /\ frame[1] = HEADER_LENGTH /\ ~fs.returned /\ HasFirstMac(frame)) =>
        /\ PduTypeOf(frame) = ADV_TYPE_ADV_NONCONN_IND =>
              /\ fs.non_conn_ind_msg.advertising_mac = Reversed(FirstMac(frame))
              /\ fpc = "done" =>
                    fresult.ll_layer_data.non_conn_ind[1].advertising_mac
                        = Reversed(FirstMac(frame))
        /\ PduTypeOf(frame) = ADV_TYPE_SCAN_REQ =>
              /\ fs.scan_req_msg.scanning_mac = Reversed(FirstMac(frame))
              /\ HasSecondMac(frame) =>
                    fs.scan_req_msg.advertising_mac = Reversed(SecondMac(frame))
              /\ fpc = "done" =>
                    /\ fresult.ll_layer_data.scan_req[1].scanning_mac
                          = Reversed(FirstMac(frame))
                    /\ HasSecondMac(frame) =>
                          fresult.ll_layer_data.scan_req[1].advertising_mac
                              = Reversed(SecondMac(frame))

\* C12 witness: a ScanRequest with the wire MACs 11 22 33 44 55 66 and
\* A1 .. A6 has been returned with 66:55:44:33:22:11 and A6:..:A1.
C12_Witness ==
    /\ fpc = "done"
    /\ fresult.valid = TRUE
    /\ fresult.ll_layer_data.scan_req # None
    /\ fresult.ll_layer_data.scan_req[1].scanning_mac = << 102, 85, 68, 51, 34, 17 >>
    /\ fresult.ll_layer_data.scan_req[1].advertising_mac = << 166, 165, 164, 163, 162, 161 >>

\* The loop has read the metadata byte (index 7) of the frame, and the
\* packet-type identifier (index 5) it had read before.
MetaRead(f) == f # << >> /\ f[1] = HEADER_LENGTH /\ Len(f) >= 8
PacketIdOf(f) == f[6]

\* C13 (SpecFrom), as claimed.  The Header of every decoded frame has exactly
\* one of the advertising and the data sub-record.
C13_ExactlyOneSubRecord ==
    FromReturned =>
        (fresult.packet_header.adv_header # None)
            # (fresult.packet_header.data_header # None)

\* C13 (SpecFrom), amended.  The Header never has both sub-records; it has
\* the advertising one iff the metadata byte was read and the packet-type
\* identifier is EVENT_PACKET_ADV_PDU, the data one iff the metadata byte was
\* read and the identifier is EVENT_PACKET_DATA_PDU, and neither otherwise.
C13_AtMostOneSubRecord ==
    FromReturned =>
        LET h == fresult.packet_header
        IN /\ ~(h.adv_header # None /\ h.data_header # None)
           /\ h.adv_header # None <=>
                 (MetaRead(frame) /\ PacketIdOf(frame) = EVENT_PACKET_ADV_PDU)
           /\ h.data_header # None <=>
                 (MetaRead(frame) /\ PacketIdOf(frame) = EVENT_PACKET_DATA_PDU)

\* C13 witness: a frame with another packet-type identifier (0) was decoded
\* past its metadata byte and has neither sub-record.
C13_Witness ==
    /\ fpc = "done"
    /\ MetaRead(frame)
    /\ PacketIdOf(frame) = 0
    /\ fresult.packet_header.adv_header = None
    /\ fresult.packet_header.data_header = None

\* C14 (SpecFrom).  A returned packet never has both PDU payloads; with
\* valid = TRUE it has the NonConnectableAdvertisement record iff its PDU
\* type is 2 and the ScanRequest record iff its PDU type is 3; with
\* valid = FALSE it has neither.
C14_PayloadSelection ==
    FromReturned =>
        LET l == fresult.ll_layer_data
        IN /\ ~(l.non_conn_ind # None /\ l.scan_req # None)
           /\ fresult.valid =>
                 /\ l.non_conn_ind # None <=> l.pdu_type = ADV_TYPE_ADV_NONCONN_IND
                 /\ l.scan_req # None <=> l.pdu_type = ADV_TYPE_SCAN_REQ
           /\ ~fresult.valid => (l.non_conn_ind = None /\ l.scan_req = None)

\* C14 witness: a ScanRequest that declares a length other than 12 has been
\* returned invalid, with PDU type 3 and no record.
C14_Witness ==
    /\ fpc = "returned"
    /\ fresult.valid = FALSE
    /\ fresult.ll_layer_data.pdu_type = ADV_TYPE_SCAN_REQ
    /\ fresult.ll_layer_data.scan_req = None
    /\ fresult.ll_layer_data.non_conn_ind = None

\* The frames the worker's byte loop passes to BlePacket::from when bytes
\* arrive in one read, the decoder state being the initial one: the loop
\* body from the byte at position i (1-based) on, out being the frames
\* passed so far.
RECURSIVE analyze_loop(_, _, _, _)
analyze_loop(c, out, bytes, i) ==
    IF i > Len(bytes) THEN out
    ELSE CHOOSE r \in
           { analyze_loop([t EXCEPT !.emit = None],
                          IF t.emit = None THEN out ELSE Append(out, t.emit[1]),
                          bytes, i + 1) :
               t \in { analyze_byte(c, bytes[i]) } } : TRUE

SingleRead(bytes) ==
    analyze_loop([packet_start |-> FALSE, previous_byte_is_esc |-> FALSE,
                  packet_bytes |-> << >>, emit |-> None], << >>, bytes, 1)

\* C15 (Spec).  However the device byte stream has been split into reads,
\* the frames passed to BlePacket::from so far are the frames that are
\* passed when the same bytes arrive in a single read.
C15_ChunkingInvariant == handed = SingleRead(consumed)

\* C15 witness: START, 6, ESCAPE arrived in one read and 0xBD, 1, END in the
\* next, and the frame 6, 0xBC, 1 was passed to BlePacket::from.
C15_Witness ==
    /\ nreads = 2
    /\ consumed = << SLIP_START, HEADER_LENGTH, SLIP_ESC, SLIP_ESC_END, 1, SLIP_END >>
    /\ handed = << << HEADER_LENGTH, SLIP_END, 1 >> >>

\* The AD bytes of an advertisement the loop has read so far: the bytes after
\* the six MAC bytes, up to the declared payload length.
ADRead(f) ==
    LET a == AfterPdu(f)
        z == ZerosOf(f)
        last == IF Len(a) < z + 8 + (DeclaredLen(f) - 6)
                THEN Len(a) ELSE z + 8 + (DeclaredLen(f) - 6)
    IN SubSeq(a, z + 9, last)

\* ad is a sequence of complete AD structures, each a length byte L >= 0
\* followed by L bytes.
RECURSIVE AtBoundary(_)
AtBoundary(ad) ==
    \/ ad = << >>
    \/ /\ Len(ad) >= ad[1] + 1
       /\ AtBoundary(SubSeq(ad, ad[1] + 2, Len(ad)))

\* C16 (SpecFrom), as claimed.  While the loop reads the AD data of an
\* advertisement, the next byte is read as a length byte exactly when the
\* bytes read so far are complete structures, each of L bytes after its
\* length byte, L = 0 and L = 1 included.
C16_StructureTermination ==
    (/\ frame # << >> /\ frame[1] = HEADER_LENGTH
     /\ ~fs.returned
     /\ HasFirstMac(frame)
     /\ PduTypeOf(frame) = ADV_TYPE_ADV_NONCONN_IND)
    => (fs.ll_payload_read_status = 0 <=> AtBoundary(ADRead(frame)))

\* C17 (SpecFrom), as claimed.  The first byte after the PDU-type byte is a
\* no-op whatever its value, and the payload length is the value of the byte
\* that follows it.
C17_LengthIsSecondByte ==
    (Len(frame) >= 23 /\ frame[1] = HEADER_LENGTH) => fs.ll_payload_len = frame[23]

\* The bytes of the frame after the byte that follows the length byte, and
\* the larger of two numbers.
AfterSkipped(f) == Len(AfterPdu(f)) - (ZerosOf(f) + 2)
Larger(a, b) == IF a >= b THEN a ELSE b

\* C17 (SpecFrom), amended.  At the position after the PDU-type byte zero
\* bytes are no-ops that hold byte_index at 21; the first non-zero byte there
\* is the payload length; the byte after it is only the occasion of the
\* ScanRequest check (return iff the PDU type is 3 and the length is not
\* 12) and is stored nowhere; the bytes after that one are counted against
\* the length, the first six unconditionally.
C17_LengthIsFirstNonZero ==
    (Len(frame) >= 22 /\ frame[1] = HEADER_LENGTH) =>
        /\ ~HasLength(frame) =>
              (fs.ll_payload_len = 0 /\ fs.byte_index = 21 /\ ~fs.returned)
        /\ HasLength(frame) =>
              /\ fs.ll_payload_len = DeclaredLen(frame)
              /\ AfterSkipped(frame) < 0 => (fs.byte_index = 21 /\ ~fs.returned)
              /\ AfterSkipped(frame) >= 0 =>
                    /\ fs.returned <=>
                          (PduTypeOf(frame) = ADV_TYPE_SCAN_REQ
                             /\ DeclaredLen(frame) # 12)
                    /\ ~fs.returned =>
                          /\ fs.byte_index = 22 + AfterSkipped(frame)
                          /\ fs.ll_payload_index =
                                (IF AfterSkipped(frame) <= Larger(DeclaredLen(frame), 6)
                                 THEN AfterSkipped(frame)
                                 ELSE Larger(DeclaredLen(frame), 6))
                          /\ AfterSkipped(frame) = 0 =>
                                /\ fs.non_conn_ind_msg = BleLLNonConnIndMsg_new
                                /\ fs.scan_req_msg = BleLLScanReqMsg_new

\* C17 witness: a ScanRequest whose first byte after the PDU-type byte is 12
\* and whose next byte is 7 has been returned valid, with its record.
C17_Witness ==
    /\ fpc = "done"
    /\ Len(frame) >= 23 /\ frame[22] = 12 /\ frame[23] = 7
    /\ fresult.valid = TRUE
    /\ fresult.ll_layer_data.scan_req # None
    /\ fs.ll_payload_index = 12

\* The header fields decoded so far.
HeaderOf == fs.result.packet_header

\* C18 (SpecFrom), as claimed.  For a frame with byte 0 equal to 6 and at
\* least 15 bytes, CRC-ok is bit 0 of byte 6, the PHY is bits 1-3 of byte 6,
\* the channel index is byte 7, the RSSI is minus byte 8, the event counter
\* is byte 9 + 256 * byte 10 and the delta is the little-endian value of
\* bytes 11-14.
C18_LayoutFromByte6 ==
    (Len(frame) >= 15 /\ frame[1] = HEADER_LENGTH) =>
        /\ HeaderOf.crc_ok = (BitAnd(frame[7], 1) = 1)
        /\ HeaderOf.phy = ShiftR(BitAnd(frame[7], 14), 1)
        /\ HeaderOf.channel_index = frame[8]
        /\ HeaderOf.rssi = 0 - frame[9]
        /\ HeaderOf.event_counter = frame[10] + 256 * frame[11]
        /\ HeaderOf.delta_time_us = SubSeq(frame, 12, 15)

\* C18 (SpecFrom), amended.  For a frame with byte 0 equal to 6 and at
\* least 16 bytes, CRC-ok is bit 0 of byte 7, the PHY is bits 4-6 of byte 7,
\* the channel index is byte 8, the RSSI is minus byte 9 (in -255..0), the
\* event counter is byte 10 + 256 * byte 11 and the delta is the
\* little-endian value of bytes 12-15; byte 6 is not read.
C18_LayoutFromByte7 ==
    (Len(frame) >= 16 /\ frame[1] = HEADER_LENGTH) =>
        /\ HeaderOf.crc_ok = (frame[8] % 2 = 1)
        /\ HeaderOf.phy = (frame[8] \div 16) % 8
        /\ HeaderOf.channel_index = frame[9]
        /\ HeaderOf.rssi = 0 - frame[10]
        /\ HeaderOf.rssi \in (0 - 255)..0
        /\ HeaderOf.event_counter = frame[11] + 256 * frame[12]
        /\ HeaderOf.delta_time_us = SubSeq(frame, 13, 16)

\* C18 witness: an advertising frame with metadata byte 0b0110101, channel
\* 38, magnitude 64, event counter 0x5678 and delta 0x04030201 has been
\* decoded to the end.
C18_Witness ==
    /\ fpc = "done"
    /\ Len(frame) >= 16 /\ frame[1] = HEADER_LENGTH
    /\ frame[7] = 10 /\ frame[8] = 53
    /\ fresult.packet_header.crc_ok = TRUE
    /\ fresult.packet_header.phy = 3
    /\ fresult.packet_header.channel_index = 38
    /\ fresult.packet_header.rssi = 0 - 64
    /\ fresult.packet_header.event_counter = 22136
    /\ fresult.packet_header.delta_time_us = << 1, 2, 3, 4 >>

\* The worker is at one of its two polls and the stop message is waiting.
PollSeesStop == wpc \in { "outer_poll", "inner_poll" } /\ thread_should_stop(ctrl)

\* C19 (Spec).  A poll of the control channel that finds the stop message,
\* at the top of the outer loop (connecting) or of the inner loop
\* (streaming), is observed; and once a stop is observed it stays observed,
\* the worker is at the outer poll or stopped and goes nowhere else, and
\* nothing is read from the device, written to it or sent on the packet
\* channel.
C19_StoppedIsTerminal ==
    [][/\ (PollSeesStop /\ wpc' # wpc) => StopObserved'
       /\ StopObserved =>
             /\ StopObserved'
             /\ wpc \in { "outer_poll", "stopped" }
             /\ wpc' \in { "outer_poll", "stopped" }
             /\ wpc = "stopped" => wpc' = "stopped"
             /\ nreads' = nreads /\ recv' = recv /\ consumed' = consumed
             /\ serial_tx' = serial_tx
             /\ send_packet_counter' = send_packet_counter
             /\ handed' = handed
             /\ Published' = Published]_vars

\* C19 witness: the worker has stopped on a stop message found by the poll
\* at the top of the outer loop, before any successful open, while reads
\* were still possible.
C19_Witness ==
    /\ wpc = "stopped" /\ ~stop_request /\ StopSent
    /\ serial_tx = << >> /\ send_packet_counter = 0 /\ nreads = 0
    /\ cpc = "exited"

\* The two command frames of the handshake, with the outgoing counters 0
\* and 1.
ScanFrame0 == make_send_scan_bytes(FALSE, FALSE, FALSE, 0)
TkFrame1 == make_send_tk_bytes(0, 1)

\* The worker is past the handshake: in the inner loop.
Streaming == wpc \in { "inner_poll", "read", "bytes" }

ReadFailed == wpc = "read" /\ wpc' = "inner_poll"

\* C21 (Spec).  A failed read leaves the worker in the inner loop, sends
\* nothing, and changes neither packet_start nor previous_byte_is_esc nor
\* packet_bytes; and the frames handed to the decoder are always those of
\* one pass over the bytes visited, wherever reads have failed in between.
C21_ReadErrorHarmless ==
    [][/\ ReadFailed =>
             /\ Streaming'
             /\ UNCHANGED << packet_start, previous_byte_is_esc, packet_bytes,
                             stop_request, recv, consumed, handed, chan, received,
                             serial_tx, send_packet_counter >>
       /\ handed' = SingleRead(consumed')
       /\ Published' = ValidPackets(handed')]_vars

\* C21 witness: a read failed after START, 6, ESCAPE had been visited, with
\* the frame open and the escape flag set, and the frame was then completed
\* by the next read and published with its escaped END.
C21_Witness ==
    /\ failed_at = { 3 }
    /\ consumed = << SLIP_START, HEADER_LENGTH, SLIP_ESC, SLIP_ESC_END, 1, SLIP_END >>
    /\ handed = << << HEADER_LENGTH, SLIP_END, 1 >> >>
    /\ Len(Published) = 1

\* The value bytes of the structures of type 0x09 of a well-formed ad, in
\* order.
RECURSIVE ADNames(_)
ADNames(ad) ==
    IF ad = << >> THEN << >>
    ELSE (IF ad[2] = 9 THEN << SubSeq(ad, 3, ad[1] + 1) >> ELSE << >>)
         \o ADNames(SubSeq(ad, ad[1] + 2, Len(ad)))

\* The frame is an advertisement whose well-formed AD data, made of
\* structures with a length byte of at least 2, holds a structure of type
\* 0x09, and the last of these has value bytes that are not UTF-8.
LastNameInvalid(f) ==
    /\ IsExactNonConn(f)
    /\ \A l \in ADLengths(ADData(f)) : l >= 2
    /\ ADNames(ADData(f)) # << >>
    /\ ~IsUtf8(ADNames(ADData(f))[Len(ADNames(ADData(f)))])

\* The last of the names q that is UTF-8, as an Option.
RECURSIVE LastValidName(_)
LastValidName(q) ==
    IF q = << >> THEN None
    ELSE IF IsUtf8(q[Len(q)]) THEN Some([device_name |-> q[Len(q)]])
    ELSE LastValidName(SubSeq(q, 1, Len(q) - 1))

\* C22 (SpecFrom), as claimed.  For an advertisement whose last structure of
\* type 0x09 has value bytes that are not valid text, the packet is valid,
\* the type codes are all recorded, and complete_local_name is None, also
\* when an earlier structure of type 0x09 held valid text.
C22_BadNameAbsent ==
    (fpc = "done" /\ LastNameInvalid(frame)) =>
        /\ fresult.valid = TRUE
        /\ fresult.ll_layer_data.non_conn_ind # None
        /\ fresult.ll_layer_data.non_conn_ind[1].advertising_types = ADTypes(ADData(frame))
        /\ fresult.ll_layer_data.non_conn_ind[1].complete_local_name = None

\* What the decoder does for such an advertisement: the packet is valid, the
\* type codes are all recorded, and complete_local_name is the last
\* structure of type 0x09 whose value bytes are UTF-8, None when there is
\* none.
C22_NameIsLastValid ==
    (fpc = "done" /\ LastNameInvalid(frame)) =>
        /\ fresult.valid = TRUE
        /\ fresult.ll_layer_data.non_conn_ind # None
        /\ fresult.ll_layer_data.non_conn_ind[1].advertising_types = ADTypes(ADData(frame))
        /\ fresult.ll_layer_data.non_conn_ind[1].complete_local_name =
              LastValidName(ADNames(ADData(frame)))

\* An advertisement with the structures 02 09 41 and 02 09 FF has been
\* decoded, and one with the single structure 02 09 FF.
C22_TwoNamesReached ==
    ~(fpc = "done" /\ LastNameInvalid(frame)
        /\ ADData(frame) = << 2, 9, 65, 2, 9, 255 >>
        /\ fresult.ll_layer_data.non_conn_ind[1].complete_local_name
              = Some([device_name |-> << 65 >>]))
C22_OneNameReached ==
    ~(fpc = "done" /\ LastNameInvalid(frame)
        /\ ADData(frame) = << 2, 9, 255 >>
        /\ fresult.ll_layer_data.non_conn_ind[1].complete_local_name = None)

\* The command identifier and the payload the frame of cmd is to carry.
SendIdOf(c) ==
    IF c.kind = "scan" THEN REQ_SCAN_CONT
    ELSE IF c.kind = "tk" THEN SET_TEMPORARY_KEY ELSE c.id
SendPayloadOf(c) ==
    IF c.kind = "scan"
    THEN << (IF c.find_scan_rsp THEN 1 ELSE 0) + (IF c.find_aux THEN 2 ELSE 0)
              + (IF c.scan_coded THEN 4 ELSE 0) >>
    ELSE IF c.kind = "tk" THEN [i \in 1..16 |-> c.tk]
    ELSE c.payload

\* C23 (SpecSend).  For a payload of fewer than 256 bytes, the frame built
\* for a command, once unframed and unescaped, is one frame: 6, the payload
\* length, 1, the counter's low byte, its high byte, the command
\* identifier, then the payload.  The payload of the scan command is one
\* byte with bit 0 = find_scan_rsp, bit 1 = find_aux, bit 2 = scan_coded;
\* the payload of the temporary-key command is 16 bytes equal to tk.
C23_CommandLayout ==
    (cmd.built /\ CodecDone /\ Len(SendPayloadOf(cmd)) < 256) =>
        /\ gpb.packet_list =
              << << 6, Len(SendPayloadOf(cmd)), 1,
                    cmd.packet_counter % 256, cmd.packet_counter \div 256,
                    SendIdOf(cmd) >> \o SendPayloadOf(cmd) >>
        /\ ~gpb.packet_start /\ ~gpb.previous_byte_is_esc

\* C23 witness: a command with a reserved byte as identifier, the counter
\* 0xABCD and the payload START, END has been built and unframed.
C23_Witness ==
    /\ cmd.built /\ CodecDone
    /\ cmd.kind = "raw" /\ cmd.id = SLIP_START
    /\ cmd.packet_counter = 171 * 256 + 205
    /\ cmd.payload = << SLIP_START, SLIP_END >>
    /\ gpb.packet_list = << << 6, 2, 1, 205, 171, 171, 171, 188 >> >>

\* C24 (Spec), as claimed.  Whenever no frame is open the escape flag is
\* clear, in the worker's decoder and in get_packet_bytes run over the same
\* bytes.
C24_EscapeClearWhenIdle ==
    /\ ~packet_start => ~previous_byte_is_esc
    /\ ~ref.packet_start => ~ref.previous_byte_is_esc

\* What the decoder does with an ESCAPE that is followed by END: the frame
\* is closed and the flag stays set.  The bytes START, 6, ESCAPE, END have
\* been visited, the frame 6 was handed over, and no frame is open.
C24_LeakReached ==
    ~(/\ consumed = << SLIP_START, HEADER_LENGTH, SLIP_ESC, SLIP_END >>
      /\ handed = << << HEADER_LENGTH >> >>
      /\ ~packet_start /\ previous_byte_is_esc
      /\ ~ref.packet_start /\ ref.previous_byte_is_esc)

\* The frame START, 0xBD, END decoded after the bytes ESCAPE, END of a frame
\* before it, and decoded alone.
C24_AfterLeak ==
    SingleRead(<< SLIP_START, SLIP_ESC, SLIP_END, SLIP_START, SLIP_ESC_END, SLIP_END >>)
C24_Alone == SingleRead(<< SLIP_START, SLIP_ESC_END, SLIP_END >>)

\* The flag left set by the first frame makes the decoder take the 0xBD of
\* the second frame for an escape code: the frame emitted is END, where the
\* same frame decoded alone is 0xBD.
C24_LeakChangesNextFrame ==
    /\ C24_AfterLeak = << << >>, << SLIP_END >> >>
    /\ C24_Alone = << << SLIP_ESC_END >> >>

\* The next byte, if there is one, is stored in the ScanRequest's second
\* MAC: byte_index has no arm of its own, the PDU type is SCAN_REQ and the
\* payload budget is not used up.
StoresSecondMac(s) ==
    /\ ~s.returned
    /\ s.byte_index \notin (2..5) \cup (7..27)
    /\ s.result.ll_layer_data.pdu_type = ADV_TYPE_SCAN_REQ
    /\ s.ll_payload_index < s.ll_payload_len

\* C25 (SpecFrom).  BlePacket::from returns a packet for every frame; the
\* index 27 - byte_index is computed for byte_index 22..27 only, and the
\* index 33 - byte_index only when the result is in 0..5; and every
\* increment of ll_payload_index and of ll_payload_info_index gives the
\* next integer, at most 255 (no 8-bit overflow).
C25_NoPanic ==
    [][/\ (~fs.returned /\ fs.byte_index \in 22..27) =>
             from_mac_slot(fs.byte_index) - 1 \in 0..5
       /\ StoresSecondMac(fs) => 33 - fs.byte_index \in 0..5
       /\ fs'.ll_payload_index \in { fs.ll_payload_index, fs.ll_payload_index + 1 }
       /\ fs'.ll_payload_index <= 255
       /\ \/ fs'.ll_payload_info_index = fs.ll_payload_info_index
          \/ fs'.ll_payload_info_index = fs.ll_payload_info_index + 1
          \/ fs.ll_payload_read_status = 0 /\ fs'.ll_payload_info_index = 0
       /\ fs'.ll_payload_info_index <= 255
       /\ fpc' \in { "loop", "returned", "done" }
       /\ fpc' # "loop" =>
             /\ fresult'.valid \in BOOLEAN
             /\ DOMAIN fresult' = DOMAIN BlePacket_new]_vars

\* C25 witness: a frame that declares 255 payload bytes and carries more,
\* all of them values of one AD structure, has been decoded:
\* ll_payload_index stands at 255 and ll_payload_info_index at 248.
C25_Witness ==
    /\ fpc = "done" /\ tmpl = "long"
    /\ Len(frame) = 23 + 6 + MaxLongTail
    /\ fs.ll_payload_len = 255
    /\ fs.ll_payload_index = 255
    /\ fs.ll_payload_info_index = 248
    /\ fresult.valid = TRUE

\* The frame declares a payload length of at least 6 and holds at least
\* that many bytes after the byte that follows the length byte; and its
\* prefix that ends with the last byte of the declared payload.
PayloadComplete(f) ==
    /\ f # << >> /\ f[1] = HEADER_LENGTH
    /\ HasLength(f)
    /\ DeclaredLen(f) >= 6
    /\ AfterSkipped(f) >= DeclaredLen(f)
ExactPrefix(f) == SubSeq(f, 1, 21 + ZerosOf(f) + 2 + DeclaredLen(f))

\* C26 (SpecFrom).  For a frame that declares a payload length of at least 6
\* and holds the whole declared payload, the packet decoded is the packet
\* decoded from the frame cut after the declared payload: the bytes after
\* it change no field.
C26_TrailingBytesIgnored ==
    (fpc \in { "done", "returned" } /\ PayloadComplete(frame)
       /\ Len(frame) > Len(ExactPrefix(frame))) =>
        fresult = BlePacket_from(ExactPrefix(frame))

\* C26 witness: an advertisement that declares 8 payload bytes (the MAC and
\* the structure 01 FF) and carries the bytes 02 01 03, a Flags structure,
\* after them has been decoded: it has one type code and no Flags.
C26_Witness ==
    /\ fpc = "done" /\ PayloadComplete(frame)
    /\ PduTypeOf(frame) = ADV_TYPE_ADV_NONCONN_IND
    /\ DeclaredLen(frame) = 8
    /\ ADData(frame) = << 1, 255, 2, 1, 3 >>
    /\ fresult.valid = TRUE
    /\ fresult.ll_layer_data.non_conn_ind[1].advertising_types = << 255 >>
    /\ fresult.ll_layer_data.non_conn_ind[1].flags = None

=============================================================================
